---- MODULE Spec2Model ----
(***************************************************************************)
(* Model of the campaign engine of the volume-bot front end.               *)
(*                                                                         *)
(* Two revisions of the page component exist in the repository:            *)
(*   - the local engine (src/src/app/page.tsx): startBot chains            *)
(*     setTimeout callbacks, each running one buy/sell trade-pair;         *)
(*   - the job-polling variant (src/unnamed/part_002): startBot submits a  *)
(*     job to the backend and polls its progress with setInterval.         *)
(* Both are driven by the same Form component (handleSubmit) and the same  *)
(* ProgressDashboard (stop button).  The variable "variant" selects the    *)
(* revision; it is fixed by Init.                                          *)
(*                                                                         *)
(* JavaScript is single-threaded: every action below is one macrotask      *)
(* (a DOM event, a timer callback, or the continuation of an awaited       *)
(* network call together with the synchronous code that follows it).       *)
(* React functional state updates are applied in the order they are        *)
(* queued, so they are modelled as immediate assignments.                  *)
(*                                                                         *)
(* The Form component (validateForm, the balance and pool lookups), the    *)
(* delay schedule (calculateDelay) and the two network wrappers            *)
(* (executeSwap, apiCall) have specifications of their own further down.   *)
(***************************************************************************)
EXTENDS Integers, Sequences, FiniteSets, TLC

\* ---- bounds of the model ----
MaxStarts == 2       \* submissions of the form that are followed in one behaviour
MaxTrades == 2       \* largest numberOfTrades a configuration carries
MaxPollReqs == 1     \* progress requests that may be in flight together
MaxStopReqs == 2     \* stop requests that may be in flight together
MaxTotalTrades == 2  \* numberOfTrades summed over the submissions of one behaviour
MaxEdits == 2        \* edits of the form's fields followed in one behaviour
MaxModeEdits == 4    \* the same, where only the mode-specific fields are edited
RandomSteps == 4     \* Math.random() yields k / RandomSteps, k in 0 .. RandomSteps - 1

NULL == 0
Ids == 1..MaxStarts
Variants == {"local", "job"}

\* values of the configuration a submission carries: duration in minutes and
\* tradeSize in hundredths of a SOL.  duration / numberOfTrades is a whole
\* number for every duration and every numberOfTrades the model draws.
Durations == {6}
TradeSizes == {1}

VARIABLES
  variant,        \* which revision of the page component runs
  isRunning,      \* useState isRunning
  stats,          \* useState stats (ProgressStats)
  tradeLogs,      \* useState tradeLogs
  intervalRef,    \* intervalRef.current: the timer handle last stored, NULL if none
  tradeCountRef,  \* tradeCountRef.current
  isValidating,   \* Form's useState isValidating (of the mounted Form)
  runs,           \* one record per handleSubmit call: where its control is
  nStarts,        \* number of handleSubmit calls so far
  pollTimers,     \* job ids whose setInterval timer is live
  pollReqs,       \* per job id: getBotProgress requests in flight
  stopReqs,       \* stopBotJob requests in flight (stopBot calls awaiting)
  userStopped,    \* history: the user has pressed a stop button
  attempted,      \* history: trade-pairs begun since the last start
  failedOps,      \* history: trade-pairs since the last start that failed
  stopsDone,      \* history: stopBot calls completed since the last start
  lastPoll,       \* history: the poller's last step ("off": no history kept)
  formRev,        \* which revision of the Form component is mounted
  formData,       \* Form's useState formData
  connected,      \* useWallet().connected
  balancePending, \* fetchBalance is scheduled or awaiting the balance
  solBalance,     \* Form's useState solBalance, in thousandths of a SOL
  poolStatus,     \* Form's useState poolStatus
  poolFetches,    \* token addresses whose checkTokenPool request is in flight
  errors,         \* Form's useState errors
  valid,          \* history: what validateForm returned for the present inputs
  nEdits,         \* number of edits of the form so far
  delay,          \* the value calculateDelay returned last
  swap,           \* the executeSwap call being followed
  call            \* the apiCall being followed

engineVars == <<variant, isRunning, stats, tradeLogs, intervalRef, tradeCountRef,
                isValidating, runs, nStarts, pollTimers, pollReqs, stopReqs,
                userStopped, attempted, failedOps, stopsDone, lastPoll>>

formVars == <<formRev, formData, connected, balancePending, solBalance,
              poolStatus, poolFetches, errors, valid, nEdits>>

callVars == <<delay, swap, call>>

vars == <<engineVars, formVars, callVars>>

\* ---- ProgressStats ----
InitialStats ==
  [tradesCompleted |-> 0, totalTrades |-> 0, volumeGenerated |-> 0,
   successfulTrades |-> 0, failedTrades |-> 0, estimatedCompletion |-> 0,
   currentStatus |-> "running", currentJobId |-> NULL]

\* faulty variant: the estimate of the remaining time is not set
StartStatsNoEstimate(n, dur, jobId) ==
  [tradesCompleted |-> 0, totalTrades |-> n, volumeGenerated |-> 0,
   successfulTrades |-> 0, failedTrades |-> 0, estimatedCompletion |-> 0,
   currentStatus |-> "running", currentJobId |-> jobId]

\* the object startBot passes to setStats
StartStats(n, dur, jobId) ==
  [tradesCompleted |-> 0, totalTrades |-> n, volumeGenerated |-> 0,
   successfulTrades |-> 0, failedTrades |-> 0, estimatedCompletion |-> dur,
   currentStatus |-> "running", currentJobId |-> jobId]

\* faulty variant: the buy failure is not counted (C5 must detect it)
BuyFailedStatsUncounted(prev) == prev

\* setStats of the buy-failure branch of executeTradePair
BuyFailedStats(prev) ==
  [prev EXCEPT !.failedTrades = prev.failedTrades + 1]

\* faulty variant: the estimate is not floored (C15 must detect it)
Max0Identity(a) == a

\* Math.max(0, a)
Max0(a) == IF a < 0 THEN 0 ELSE a

\* faulty variant: volume is credited only when both legs succeeded
PairStatsVolumeOnSuccess(prev, cfg, bothSuccessful) ==
  [prev EXCEPT
     !.tradesCompleted = prev.tradesCompleted + 1,
     !.volumeGenerated = IF bothSuccessful THEN prev.volumeGenerated + cfg.T * 2
                         ELSE prev.volumeGenerated,
     !.estimatedCompletion = Max0(prev.estimatedCompletion - (cfg.D \div cfg.N)),
     !.successfulTrades = IF bothSuccessful THEN prev.successfulTrades + 1
                          ELSE prev.successfulTrades,
     !.failedTrades = IF bothSuccessful THEN prev.failedTrades
                      ELSE prev.failedTrades + 1]

\* setStats at the end of executeTradePair; cfg is the configuration the
\* closure of the loop holds.  volumeGenerated is in SOL-hundredths * 100:
\* tradeSize * 2 * 100 with tradeSize = cfg.T / 100.
PairStats(prev, cfg, bothSuccessful) ==
  [prev EXCEPT
     !.tradesCompleted = prev.tradesCompleted + 1,
     !.volumeGenerated = prev.volumeGenerated + cfg.T * 2,
     !.estimatedCompletion = Max0(prev.estimatedCompletion - (cfg.D \div cfg.N)),
     !.successfulTrades = IF bothSuccessful THEN prev.successfulTrades + 1
                          ELSE prev.successfulTrades,
     !.failedTrades = IF bothSuccessful THEN prev.failedTrades
                      ELSE prev.failedTrades + 1]

\* faulty variant: stop toggles between completed and paused (C9 must
\* detect it)
StopBotStatsToggle(prev) ==
  [prev EXCEPT !.currentStatus =
     IF prev.currentStatus = "completed" THEN "paused" ELSE "completed"]

\* setStats of stopBot
StopBotStats(prev) == [prev EXCEPT !.currentStatus = "completed"]

\* ---- trade log ----
LogEntry(s, k, type) == [run |-> s, seq |-> k, type |-> type, status |-> "pending"]

\* faulty variant: the map matches on the trade id alone, so the buy entry
\* of the pair is rewritten with the sell result (C10 must detect it)
MarkLogWholePair(logs, s, k, type, ok) ==
  [i \in 1..Len(logs) |->
     IF logs[i].run = s /\ logs[i].seq = k
       THEN [logs[i] EXCEPT !.status = IF ok THEN "success" ELSE "failed"]
       ELSE logs[i]]

\* setTradeLogs(prev => prev.map(log => log.id === id ? {...log, status} : log))
MarkLog(logs, s, k, type, ok) ==
  [i \in 1..Len(logs) |->
     IF logs[i].run = s /\ logs[i].seq = k /\ logs[i].type = type
       THEN [logs[i] EXCEPT !.status = IF ok THEN "success" ELSE "failed"]
       ELSE logs[i]]

\* ---- progress snapshots of the backend (BotProgressResponse) ----
Percentages == {0, 50, 100}
RemoteCounts == {0, 1}
RemoteVolumes == {0, 2}
\* the snapshots drawn report a volume of 2 per successful transaction
Snapshots ==
  {d \in [status : {"running", "completed", "failed"},
          progress_percentage : Percentages,
          generated_volume : RemoteVolumes,
          successful : RemoteCounts,
          failed : RemoteCounts] :
     d.generated_volume = 2 * d.successful}

\* faulty variant: the poll callback copies the remote status into the local
\* one (C14 must detect it)
PollStatsWithStatus(prev, d) ==
  [prev EXCEPT
     !.volumeGenerated = d.generated_volume,
     !.successfulTrades = d.successful,
     !.failedTrades = d.failed,
     !.tradesCompleted = (d.progress_percentage * prev.totalTrades) \div 100,
     !.currentStatus = d.status]

\* setStats of the poll callback; Math.floor(p / 100 * prev.totalTrades)
PollStats(prev, d) ==
  [prev EXCEPT
     !.volumeGenerated = d.generated_volume,
     !.successfulTrades = d.successful,
     !.failedTrades = d.failed,
     !.tradesCompleted = (d.progress_percentage * prev.totalTrades) \div 100]

\* setStats of the terminal branch of the poll callback
TerminalStats(prev, d) ==
  [prev EXCEPT !.currentStatus =
     IF d.status = "completed" THEN "completed" ELSE "error"]

\* faulty variant: a response without data marks the campaign as failed
\* (C13 must detect it)
NoDataStatsError(prev) == [prev EXCEPT !.currentStatus = "error"]

\* the poll callback when the response carries no data: no setStats call
NoDataStats(prev) == prev

\* faulty variant: the terminal branch leaves the interval timer alive
\* (C11 must detect it)
TerminalTimersKept(pt, j) == pt

\* clearInterval(pollInterval) of the terminal branch: pollInterval is the
\* timer of the job the closure polls
TerminalTimers(pt, j) == pt \ {j}

\* the history of the poller is kept only where a specification starts it
Record(last) == IF lastPoll = "off" THEN "off" ELSE last

\* ---- control records ----
NoRun == [phase |-> "none", N |-> 0, D |-> 0, T |-> 0, seq |-> 0,
          stopped |-> FALSE, stale |-> FALSE]

\* faulty variant: the loop ends one operation early (C7 must detect it)
TradeLimitReachedEarly(cnt, n) == cnt + 1 >= n

\* faulty variant: the loop runs one operation too many (C8 must detect it)
TradeLimitReachedLate(cnt, n) == cnt > n

\* the test of executeTrade: tradeCountRef.current >= config.numberOfTrades
TradeLimitReached(cnt, n) == cnt >= n

\* clearTimeout(intervalRef.current): cancels the timer only if it has not fired
ClearTimer(rs, ref) ==
  [s \in Ids |-> IF s = ref /\ rs[s].phase = "timer"
                   THEN [rs[s] EXCEPT !.phase = "done"] ELSE rs[s]]

\* history: stopBot has been called during the life of these runs
MarkStopped(rs) ==
  [s \in Ids |-> IF rs[s].phase \in {"none", "validating"} THEN rs[s]
                 ELSE [rs[s] EXCEPT !.stopped = TRUE]]

\* the Form is unmounted when isRunning becomes true: handleSubmit calls still
\* awaiting belong to the old instance
MarkStale(rs) ==
  [s \in Ids |-> IF rs[s].phase = "validating"
                   THEN [rs[s] EXCEPT !.stale = TRUE] ELSE rs[s]]

RECURSIVE SumReqs(_, _)
SumReqs(rq, k) == IF k = 0 THEN 0 ELSE rq[k] + SumReqs(rq, k - 1)
\* progress requests in flight, over all jobs
InFlight == SumReqs(pollReqs, MaxStarts)

RECURSIVE SumN(_, _)
SumN(rs, k) == IF k = 0 THEN 0 ELSE rs[k].N + SumN(rs, k - 1)
\* the submissions followed so far leave room for one of n trades
Room(n) == nStarts < MaxStarts /\ SumN(runs, MaxStarts) + n <= MaxTotalTrades

\* ------------------------------------------------------------------------
\* Form: the data of the form and validateForm
\* (src/src/components/Form.tsx, both revisions)
\* ------------------------------------------------------------------------

\* ---- JavaScript numbers as the form holds them ----
Num(v) == [kind |-> "num", v |-> v]
NaN == [kind |-> "nan", v |-> 0]
Undefined == [kind |-> "undef", v |-> 0]

\* a < b and a > b: false as soon as an operand is NaN or undefined
Lt(a, b) == a.kind = "num" /\ b.kind = "num" /\ a.v < b.v
Gt(a, b) == a.kind = "num" /\ b.kind = "num" /\ a.v > b.v

\* !a for a number: undefined, NaN and 0 are falsy
Falsy(a) == a.kind # "num" \/ a.v = 0

\* a || d
OrElse(a, d) == IF Falsy(a) THEN d ELSE a

\* ---- what the user types into a number input ----
\* the text of the input: empty, or a decimal numeral "whole.frac" with frac
\* in thousandths
Empty == [empty |-> TRUE, whole |-> 0, frac |-> 0]
Text(w, f) == [empty |-> FALSE, whole |-> w, frac |-> f]

\* parseInt(e.target.value): NaN for the empty text, else the digits before
\* the decimal point
ParseInt(txt) == IF txt.empty THEN NaN ELSE Num(txt.whole)

\* parseFloat(e.target.value), kept in thousandths
ParseFloat(txt) == IF txt.empty THEN NaN ELSE Num(txt.whole * 1000 + txt.frac)

Revisions == {"early", "late"}

\* the bounds validateForm compares numberOfTrades with
TradesLow(rev) == IF rev = "early" THEN 100 ELSE 10
TradesHigh(rev) == IF rev = "early" THEN 10000 ELSE 100

\* texts typed into the inputs: empty, both bounds, and the neighbours outside
TradesTexts(rev) ==
  {Empty, Text(TradesLow(rev) - 1, 0), Text(TradesLow(rev), 0),
   Text(TradesHigh(rev), 0), Text(TradesHigh(rev) + 1, 0)}
DurationTexts == {Empty, Text(0, 0), Text(1, 0), Text(1440, 0), Text(1441, 0)}
TradeSizeTexts == {Empty, Text(0, 9), Text(0, 10), Text(0, 100), Text(0, 101)}
SlippageTexts == {Empty, Text(0, 99), Text(0, 100), Text(10, 0), Text(10, 1)}
DelayTexts == {Empty, Text(0, 0), Text(1, 0), Text(2, 0)}

\* token addresses typed: none, a short string that is no public key, and two
\* well-formed addresses (32 characters or more)
Tokens == {"", "bad", "mintA", "mintB"}
\* new PublicKey(address) does not throw
IsPublicKey(a) == a \in {"mintA", "mintB"}
\* value.length >= 32
IsLong(a) == a \in {"mintA", "mintB"}

Modes == {"boost", "bump", "advanced", "trending"}
Platforms == {"dexscreener"}
\* SOL balances the wallet lookup yields, in thousandths of a SOL
Balances == {0, 5, 1000}

\* useState<FormData> initial value
InitialFormData ==
  [tokenAddress |-> "", numberOfTrades |-> Num(100), duration |-> Num(60),
   tradeSize |-> Num(10), slippageTolerance |-> Num(1000), mode |-> "bump",
   customDelayMin |-> Undefined, customDelayMax |-> Undefined,
   selectedPlatforms |-> <<>>]

NoErrors == [k \in {} |-> ""]

\* newErrors[key] = msg
SetError(e, key, msg) ==
  [k \in DOMAIN e \cup {key} |-> IF k = key THEN msg ELSE e[k]]

\* each block of validateForm, as a function of the map built so far
WalletErrors(e, conn) ==
  IF ~conn THEN SetError(e, "wallet", "connect") ELSE e

BalanceErrors(e, conn, bal) ==
  IF conn /\ bal = 0 THEN SetError(e, "balance", "unfetched")
  ELSE IF conn /\ bal > 0 /\ bal < 10
         THEN SetError(e, "balance", "low")
  ELSE e

TokenErrors(e, rev, fd, pool) ==
  IF fd.tokenAddress = "" THEN SetError(e, "tokenAddress", "required")
  ELSE IF ~IsPublicKey(fd.tokenAddress)
         THEN SetError(e, "tokenAddress", "invalid")
  ELSE IF rev = "late" /\ pool = "missing"
         THEN SetError(e, "tokenAddress", "nopool")
  ELSE e

\* if (value < low || value > high) newErrors[key] = ...
RangeErrors(e, key, value, low, high) ==
  IF Lt(value, Num(low)) \/ Gt(value, Num(high))
    THEN SetError(e, key, "range") ELSE e

DelayMinErrors(e, fd) ==
  IF fd.mode = "advanced" /\ (Falsy(fd.customDelayMin) \/ Lt(fd.customDelayMin, Num(1)))
    THEN SetError(e, "customDelayMin", "min") ELSE e

DelayMaxErrors(e, fd) ==
  IF /\ fd.mode = "advanced"
     /\ \/ Falsy(fd.customDelayMax)
        \/ Lt(fd.customDelayMax, OrElse(fd.customDelayMin, Num(1)))
    THEN SetError(e, "customDelayMax", "max") ELSE e

\* newErrors at the end of validateForm
ValidationErrors(rev, fd, conn, bal, pool) ==
  LET e1 == WalletErrors(NoErrors, conn)
      e2 == BalanceErrors(e1, conn, bal)
      e3 == TokenErrors(e2, rev, fd, pool)
      e4 == RangeErrors(e3, "numberOfTrades", fd.numberOfTrades,
                        TradesLow(rev), TradesHigh(rev))
      e5 == RangeErrors(e4, "duration", fd.duration, 1, 1440)
      e6 == RangeErrors(e5, "tradeSize", fd.tradeSize, 10, 100)
      e7 == RangeErrors(e6, "slippageTolerance", fd.slippageTolerance, 100, 10000)
      e8 == DelayMinErrors(e7, fd)
  IN DelayMaxErrors(e8, fd)

\* if (errors[field]) setErrors(prev => ({...prev, [field]: ''}))
ClearError(e, field) ==
  IF field \in DOMAIN e /\ e[field] # "" THEN [e EXCEPT ![field] = ""] ELSE e

\* ------------------------------------------------------------------------
\* calculateDelay  (page.tsx)
\* ------------------------------------------------------------------------

\* delays are kept in units of 1 / DelayUnits of a millisecond, so that the
\* products with the random factor are whole numbers
DelayUnits == 10 * RandomSteps

\* a / b for JavaScript numbers; the configurations drawn divide exactly
Div(a, b) ==
  IF a.kind = "num" /\ b.kind = "num" /\ b.v # 0 THEN Num(a.v \div b.v) ELSE NaN

\* faulty variant: boost is not packed into half the window
BaseDelayNoHalving(cfg) ==
  Div(IF cfg.duration.kind = "num" THEN Num(cfg.duration.v * 60 * 1000) ELSE NaN,
      cfg.numberOfTrades)

\* baseDelay of calculateDelay for the modes other than advanced, in ms
BaseDelay(cfg) ==
  LET window == IF cfg.duration.kind = "num"
                  THEN Num(cfg.duration.v * 60 * 1000) ELSE NaN
      count == IF cfg.mode = "boost" /\ cfg.numberOfTrades.kind = "num"
                 THEN Num(cfg.numberOfTrades.v * 2) ELSE cfg.numberOfTrades
  IN Div(window, count)

\* calculateDelay(config) when Math.random() returns k / RandomSteps
CalculateDelay(cfg, k) ==
  IF cfg.mode = "advanced"
    THEN LET minMs == OrElse(cfg.customDelayMin, Num(5)).v * 1000
             maxMs == OrElse(cfg.customDelayMax, Num(30)).v * 1000
         IN Num(10 * k * (maxMs - minMs) + DelayUnits * minMs)
    ELSE LET base == BaseDelay(cfg)
         IN IF base.kind = "num" THEN Num(base.v * (8 * RandomSteps + 4 * k)) ELSE NaN

\* the configurations that reach startBot: those validateForm (later
\* revision) accepts for a connected wallet with a balance
DelayConfigs ==
  {fd \in {[InitialFormData EXCEPT !.tokenAddress = "mintA",
                                   !.numberOfTrades = n, !.duration = d,
                                   !.mode = m, !.customDelayMin = lo,
                                   !.customDelayMax = hi] :
             n \in {ParseInt(x) : x \in TradesTexts("late")}
                     \cup {InitialFormData.numberOfTrades},
             d \in {ParseInt(x) : x \in DurationTexts} \cup {InitialFormData.duration},
             m \in Modes,
             lo \in {Undefined} \cup {ParseInt(x) : x \in DelayTexts},
             hi \in {Undefined} \cup {ParseInt(x) : x \in DelayTexts}} :
     /\ DOMAIN ValidationErrors("late", fd, TRUE, 1000, "unset") = {}
     /\ fd.mode # "advanced" => (fd.customDelayMin = Undefined /\ fd.customDelayMax = Undefined)}

\* ------------------------------------------------------------------------
\* apiCall (lib/api.ts, and its earlier revision in part_001) and
\* executeSwap (page.tsx)
\* ------------------------------------------------------------------------

\* what a call resolved to; NoResult while it has not settled
NoResult == [kind |-> "none"]
ApiSuccess == [kind |-> "resolved", success |-> TRUE, data |-> TRUE, error |-> ""]
\* the catch block of apiCall: { success: false, error: errorMessage }
ApiFailure(msg) == [kind |-> "resolved", success |-> FALSE, data |-> FALSE, error |-> msg]

\* no call has been followed yet.  timer: a timeout is armed for the request
NoCall == [pc |-> "idle", rev |-> "late", timer |-> FALSE, owner |-> "none",
           result |-> NoResult]

\* the steps of executeSwap, in order
SwapSteps == {"wallet", "quote", "sign", "send", "confirm"}

\* passed: the steps that have succeeded; hash: sendRawTransaction has
\* returned a transaction hash
NoSwap == [pc |-> "idle", passed |-> {}, hash |-> FALSE, result |-> NoResult]

\* return { success: true, txHash }
SwapSuccess == [kind |-> "resolved", success |-> TRUE, txHash |-> TRUE, error |-> ""]

\* faulty variant: the failure result carries the hash of a broadcast
\* transaction
SwapCaughtWithHash(sw, msg) ==
  [sw EXCEPT !.pc = "done",
             !.result = [kind |-> "resolved", success |-> FALSE,
                         txHash |-> sw.hash, error |-> msg]]

\* the catch block of executeSwap: { success: false, error: message }
SwapCaught(sw, msg) ==
  [sw EXCEPT !.pc = "done",
             !.result = [kind |-> "resolved", success |-> FALSE,
                         txHash |-> FALSE, error |-> msg]]

\* a step of executeSwap succeeded and the next await begins
SwapAdvance(sw, step, next) ==
  [sw EXCEPT !.pc = next, !.passed = sw.passed \cup {step}]

CallInit ==
  /\ delay = Undefined
  /\ swap = NoSwap
  /\ call = NoCall

\* the Form after construction
FormInit ==
  /\ formData = InitialFormData
  /\ connected = FALSE
  /\ balancePending = FALSE
  /\ solBalance = 0
  /\ poolStatus = "unset"
  /\ poolFetches = {}
  /\ errors = NoErrors
  /\ valid = "none"
  /\ nEdits = 0

\* ------------------------------------------------------------------------
\* Initial state
\* ------------------------------------------------------------------------

\* the page after construction
EngineInit ==
  /\ variant \in Variants
  /\ isRunning = FALSE
  /\ stats = InitialStats
  /\ tradeLogs = <<>>
  /\ intervalRef = NULL
  /\ tradeCountRef = 0
  /\ isValidating = FALSE
  /\ runs = [s \in Ids |-> NoRun]
  /\ nStarts = 0
  /\ pollTimers = {}
  /\ pollReqs = [s \in Ids |-> 0]
  /\ stopReqs = 0
  /\ userStopped = FALSE
  /\ attempted = 0
  /\ failedOps = 0
  /\ stopsDone = 0

\* the campaign engine does not read the Form's state: its specifications
\* keep the later revision of the Form mounted
Init ==
  /\ EngineInit
  /\ FormInit
  /\ CallInit
  /\ formRev = "late"
  /\ lastPoll = "off"

\* ------------------------------------------------------------------------
\* Form.handleSubmit and startBot
\* ------------------------------------------------------------------------

\* the formData a handleSubmit call holds, kept in the control record
WithConfig(rs, s, n, dur, ts) ==
  [rs EXCEPT ![s].N = n, ![s].D = dur, ![s].T = ts]

\* startBot(config), called by handleSubmit as onStartBot(formData).  The
\* button that submits the form is disabled while the wallet is not connected,
\* so the publicKey test of startBot passes on every call the form makes.
\* Local engine: runs to its end synchronously.  Job variant: runs up to
\* "await runVolumeBot(botParams)".
StartBot(s, rs) ==
  IF variant = "local"
    THEN /\ isRunning' = TRUE
         /\ stats' = StartStats(rs[s].N, rs[s].D, NULL)
         /\ tradeLogs' = <<>>
         /\ tradeCountRef' = 0
         /\ intervalRef' = s
         /\ runs' = [MarkStale(rs) EXCEPT ![s].phase = "timer"]
         /\ attempted' = 0
         /\ failedOps' = 0
         /\ stopsDone' = 0
    ELSE /\ runs' = [rs EXCEPT ![s].phase = "submitting"]
         /\ UNCHANGED <<isRunning, stats, tradeLogs, tradeCountRef, intervalRef,
                        attempted, failedOps, stopsDone>>

\* handleSubmit when the token is the SOL mint: no account lookup, onStartBot
\* is called in the same task and the finally block resets isValidating.
HandleSubmitDirect(n, dur, ts) ==
  /\ ~isRunning /\ ~isValidating
  /\ Room(n)
  /\ nStarts' = nStarts + 1
  /\ StartBot(nStarts + 1, WithConfig(runs, nStarts + 1, n, dur, ts))
  /\ isValidating' = FALSE
  /\ UNCHANGED <<callVars, formVars, variant, lastPoll, pollTimers, pollReqs, stopReqs, userStopped>>

\* handleSubmit up to "await connection.getAccountInfo(tokenMint)"
HandleSubmitLookup(n, dur, ts) ==
  /\ ~isRunning /\ ~isValidating
  /\ Room(n)
  /\ nStarts' = nStarts + 1
  /\ isValidating' = TRUE
  /\ runs' = [WithConfig(runs, nStarts + 1, n, dur, ts)
                EXCEPT ![nStarts + 1].phase = "validating"]
  /\ UNCHANGED <<callVars, formVars, variant, lastPoll, isRunning, stats, tradeLogs, intervalRef, tradeCountRef,
                 pollTimers, pollReqs, stopReqs, userStopped, attempted,
                 failedOps, stopsDone>>

\* the lookup found the token account: onStartBot(formData), then finally
LookupFound(s) ==
  /\ runs[s].phase = "validating"
  /\ StartBot(s, runs)
  /\ isValidating' = IF runs[s].stale THEN isValidating ELSE FALSE
  /\ UNCHANGED <<callVars, formVars, variant, lastPoll, nStarts, pollTimers, pollReqs, stopReqs, userStopped>>

\* the lookup failed or found nothing: toast, setIsValidating(false), return
LookupFailed(s) ==
  /\ runs[s].phase = "validating"
  /\ runs' = [runs EXCEPT ![s].phase = "rejected"]
  /\ isValidating' = IF runs[s].stale THEN isValidating ELSE FALSE
  /\ UNCHANGED <<callVars, formVars, variant, lastPoll, isRunning, stats, tradeLogs, intervalRef, tradeCountRef,
                 nStarts, pollTimers, pollReqs, stopReqs, userStopped,
                 attempted, failedOps, stopsDone>>

\* ------------------------------------------------------------------------
\* Local engine: executeTrade, executeTradePair, stopBot  (page.tsx)
\* ------------------------------------------------------------------------

\* stopBot() as a function of the state it acts on, x = [ref, running, st,
\* rs, pt]: clear the timer held by intervalRef, intervalRef null, isRunning
\* false, status completed
StopBotResult(x) ==
  [ref |-> NULL,
   running |-> FALSE,
   st |-> StopBotStats(x.st),
   rs |-> MarkStopped(ClearTimer(x.rs, x.ref)),
   pt |-> x.pt]

\* the finally block of the job variant's stopBot, as a function of the state
JobStopResult(x) ==
  [ref |-> NULL,
   running |-> FALSE,
   st |-> StopBotStats(x.st),
   rs |-> MarkStopped(x.rs),
   pt |-> x.pt \ {x.ref}]

\* the part of the state stopBot reads and writes
Cur == [ref |-> intervalRef, running |-> isRunning, st |-> stats, rs |-> runs,
        pt |-> pollTimers]

\* stopBot() called where the caller has left the runs rs and the stats st
StopBot(rs, st) ==
  LET y == StopBotResult([Cur EXCEPT !.rs = rs, !.st = st]) IN
  /\ runs' = y.rs
  /\ intervalRef' = y.ref
  /\ isRunning' = y.running
  /\ stats' = y.st
  /\ stopsDone' = stopsDone + 1

\* executeTrade after "await executeTradePair(config)" has returned
ExecuteTradeNext(s, rs, st) ==
  /\ tradeCountRef' = tradeCountRef + 1
  /\ IF TradeLimitReached(tradeCountRef + 1, rs[s].N)
       THEN StopBot([rs EXCEPT ![s].phase = "done"], st)
       ELSE /\ runs' = [rs EXCEPT ![s].phase = "timer"]
            /\ intervalRef' = s
            /\ stats' = st
            /\ UNCHANGED <<isRunning, stopsDone>>

\* the delay timer of loop s fires: executeTrade up to the first await of
\* executeTradePair (the buy swap)
TimerFire(s) ==
  /\ variant = "local"
  /\ runs[s].phase = "timer"
  /\ IF TradeLimitReached(tradeCountRef, runs[s].N)
       THEN /\ StopBot([runs EXCEPT ![s].phase = "done"], stats)
            /\ UNCHANGED <<tradeLogs, attempted>>
       ELSE /\ tradeLogs' = Append(tradeLogs, LogEntry(s, runs[s].seq + 1, "buy"))
            /\ runs' = [runs EXCEPT ![s].phase = "buy", ![s].seq = runs[s].seq + 1]
            /\ attempted' = attempted + 1
            /\ UNCHANGED <<isRunning, stats, intervalRef, stopsDone>>
  /\ UNCHANGED <<callVars, formVars, variant, lastPoll, tradeCountRef, isValidating, nStarts, pollTimers,
                 pollReqs, stopReqs, userStopped, failedOps>>

\* the buy swap resolved with success: log updated, 2 s pause begins
BuyOk(s) ==
  /\ variant = "local"
  /\ runs[s].phase = "buy"
  /\ tradeLogs' = MarkLog(tradeLogs, s, runs[s].seq, "buy", TRUE)
  /\ runs' = [runs EXCEPT ![s].phase = "gap"]
  /\ UNCHANGED <<callVars, formVars, variant, lastPoll, isRunning, stats, intervalRef, tradeCountRef,
                 isValidating, nStarts, pollTimers, pollReqs, stopReqs,
                 userStopped, attempted, failedOps, stopsDone>>

\* the buy swap resolved with failure: log updated, failedTrades + 1,
\* executeTradePair returns and executeTrade continues
BuyFailed(s) ==
  /\ variant = "local"
  /\ runs[s].phase = "buy"
  /\ tradeLogs' = MarkLog(tradeLogs, s, runs[s].seq, "buy", FALSE)
  /\ ExecuteTradeNext(s, runs, BuyFailedStats(stats))
  /\ failedOps' = failedOps + 1
  /\ UNCHANGED <<callVars, formVars, variant, lastPoll, isValidating, nStarts, pollTimers, pollReqs,
                 stopReqs, userStopped, attempted>>

\* the 2 s pause is over: the pending sell entry is appended, sell swap begins
GapDone(s) ==
  /\ variant = "local"
  /\ runs[s].phase = "gap"
  /\ tradeLogs' = Append(tradeLogs, LogEntry(s, runs[s].seq, "sell"))
  /\ runs' = [runs EXCEPT ![s].phase = "sell"]
  /\ UNCHANGED <<callVars, formVars, variant, lastPoll, isRunning, stats, intervalRef, tradeCountRef,
                 isValidating, nStarts, pollTimers, pollReqs, stopReqs,
                 userStopped, attempted, failedOps, stopsDone>>

\* the sell swap resolved: log updated, stats updated, executeTrade continues
SellResolved(s, ok) ==
  /\ variant = "local"
  /\ runs[s].phase = "sell"
  /\ tradeLogs' = MarkLog(tradeLogs, s, runs[s].seq, "sell", ok)
  /\ ExecuteTradeNext(s, runs, PairStats(stats, runs[s], ok))
  /\ failedOps' = IF ok THEN failedOps ELSE failedOps + 1
  /\ UNCHANGED <<callVars, formVars, variant, lastPoll, isValidating, nStarts, pollTimers, pollReqs,
                 stopReqs, userStopped, attempted>>

\* the user presses "Stop Bot" on the dashboard (rendered while isRunning)
StopClick ==
  /\ variant = "local"
  /\ isRunning
  /\ StopBot(runs, stats)
  /\ userStopped' = TRUE
  /\ UNCHANGED <<callVars, formVars, variant, lastPoll, tradeLogs, tradeCountRef, isValidating, nStarts,
                 pollTimers, pollReqs, stopReqs, attempted, failedOps>>

\* ------------------------------------------------------------------------
\* Job-polling variant: startBot, startProgressPolling, stopBot  (part_002)
\* ------------------------------------------------------------------------

\* runVolumeBot answered with a job: startBot continues, startProgressPolling
\* creates the interval timer and stores it in intervalRef
JobStartOk(s) ==
  /\ variant = "job"
  /\ runs[s].phase = "submitting"
  /\ isRunning' = TRUE
  /\ stats' = StartStats(runs[s].N, runs[s].D, s)
  /\ tradeLogs' = <<>>
  /\ pollTimers' = pollTimers \cup {s}
  /\ intervalRef' = s
  /\ runs' = [(IF isRunning THEN runs ELSE MarkStale(runs)) EXCEPT ![s].phase = "polling"]
  /\ isValidating' = FALSE
  /\ stopsDone' = 0
  /\ lastPoll' = Record("none")
  /\ UNCHANGED <<callVars, formVars, variant, tradeCountRef, nStarts, pollReqs, stopReqs,
                 userStopped, attempted, failedOps>>

\* runVolumeBot failed: the catch block of startBot, setIsRunning(false)
JobStartFailed(s) ==
  /\ variant = "job"
  /\ runs[s].phase = "submitting"
  /\ runs' = [runs EXCEPT ![s].phase = "done"]
  /\ isRunning' = FALSE
  /\ UNCHANGED <<callVars, formVars, variant, lastPoll, stats, tradeLogs, intervalRef, tradeCountRef,
                 isValidating, nStarts, pollTimers, pollReqs, stopReqs,
                 userStopped, attempted, failedOps, stopsDone>>

\* the interval timer of job j ticks: getBotProgress(j) is issued
PollTick(j) ==
  /\ variant = "job"
  /\ j \in pollTimers
  /\ InFlight < MaxPollReqs
  /\ pollReqs' = [pollReqs EXCEPT ![j] = pollReqs[j] + 1]
  /\ lastPoll' = Record("none")
  /\ UNCHANGED <<callVars, formVars, variant, isRunning, stats, tradeLogs, intervalRef, tradeCountRef,
                 isValidating, runs, nStarts, pollTimers, stopReqs,
                 userStopped, attempted, failedOps, stopsDone>>

\* getBotProgress(j) resolved without data (transport error, timeout, non-2xx)
PollFailed(j) ==
  /\ variant = "job"
  /\ pollReqs[j] > 0
  /\ pollReqs' = [pollReqs EXCEPT ![j] = pollReqs[j] - 1]
  /\ stats' = NoDataStats(stats)
  /\ lastPoll' = Record("nodata")
  /\ UNCHANGED <<callVars, formVars, variant, isRunning, tradeLogs, intervalRef, tradeCountRef,
                 isValidating, runs, nStarts, pollTimers, stopReqs,
                 userStopped, attempted, failedOps, stopsDone>>

\* getBotProgress(j) resolved with the snapshot d
PollData(j, d) ==
  /\ variant = "job"
  /\ pollReqs[j] > 0
  /\ pollReqs' = [pollReqs EXCEPT ![j] = pollReqs[j] - 1]
  /\ IF d.status \in {"completed", "failed"}
       THEN /\ pollTimers' = TerminalTimers(pollTimers, j)
            /\ isRunning' = FALSE
            /\ stats' = TerminalStats(PollStats(stats, d), d)
            /\ lastPoll' = Record(d.status)
       ELSE /\ stats' = PollStats(stats, d)
            /\ lastPoll' = Record("none")
            /\ UNCHANGED <<pollTimers, isRunning>>
  /\ UNCHANGED <<callVars, formVars, variant, tradeLogs, intervalRef, tradeCountRef, isValidating,
                 runs, nStarts, stopReqs, userStopped, attempted, failedOps,
                 stopsDone>>

\* the user presses "Stop Bot": stopBot up to "await stopBotJob(jobId)"
StopBegin ==
  /\ variant = "job"
  /\ isRunning
  /\ stats.currentJobId # NULL
  /\ stopReqs < MaxStopReqs
  /\ stopReqs' = stopReqs + 1
  /\ userStopped' = TRUE
  /\ UNCHANGED <<callVars, formVars, variant, lastPoll, isRunning, stats, tradeLogs, intervalRef, tradeCountRef,
                 isValidating, runs, nStarts, pollTimers, pollReqs,
                 attempted, failedOps, stopsDone>>

\* stopBotJob resolved (either way): the finally block of stopBot
StopFinish ==
  /\ variant = "job"
  /\ stopReqs > 0
  /\ stopReqs' = stopReqs - 1
  /\ LET y == JobStopResult(Cur) IN
       /\ pollTimers' = y.pt
       /\ intervalRef' = y.ref
       /\ isRunning' = y.running
       /\ stats' = y.st
       /\ runs' = y.rs
  /\ stopsDone' = stopsDone + 1
  /\ UNCHANGED <<callVars, formVars, variant, lastPoll, tradeLogs, tradeCountRef, isValidating, nStarts,
                 pollReqs, userStopped, attempted, failedOps>>

Next ==
  \/ \E n \in 1..MaxTrades, dur \in Durations, ts \in TradeSizes :
       HandleSubmitDirect(n, dur, ts)
  \/ \E n \in 1..MaxTrades, dur \in Durations, ts \in TradeSizes :
       HandleSubmitLookup(n, dur, ts)
  \/ \E s \in Ids : LookupFound(s)
  \/ \E s \in Ids : LookupFailed(s)
  \/ \E s \in Ids : TimerFire(s)
  \/ \E s \in Ids : BuyOk(s)
  \/ \E s \in Ids : BuyFailed(s)
  \/ \E s \in Ids : GapDone(s)
  \/ \E s \in Ids, ok \in BOOLEAN : SellResolved(s, ok)
  \/ StopClick
  \/ \E s \in Ids : JobStartOk(s)
  \/ \E s \in Ids : JobStartFailed(s)
  \/ \E j \in Ids : PollTick(j)
  \/ \E j \in Ids : PollFailed(j)
  \/ \E j \in Ids, d \in Snapshots : PollData(j, d)
  \/ StopBegin
  \/ StopFinish

Spec == Init /\ [][Next]_vars

\* ---- the job-polling variant alone ----
\* The campaigns are started for the SOL mint, for which handleSubmit makes no
\* account lookup, and the history of the poller is kept.
InitJob ==
  /\ EngineInit /\ variant = "job"
  /\ FormInit
  /\ CallInit
  /\ formRev = "late"
  /\ lastPoll = "none"

NextJob ==
  \/ \E n \in 1..MaxTrades, dur \in Durations, ts \in TradeSizes :
       HandleSubmitDirect(n, dur, ts)
  \/ \E s \in Ids : JobStartOk(s)
  \/ \E s \in Ids : JobStartFailed(s)
  \/ \E j \in Ids : PollTick(j)
  \/ \E j \in Ids : PollFailed(j)
  \/ \E j \in Ids, d \in Snapshots : PollData(j, d)
  \/ StopBegin
  \/ StopFinish

SpecJob == InitJob /\ [][NextJob]_vars

\* ---- the local engine alone ----
InitLocal == Init /\ variant = "local"

NextLocal ==
  \/ \E n \in 1..MaxTrades, dur \in Durations, ts \in TradeSizes :
       HandleSubmitDirect(n, dur, ts)
  \/ \E n \in 1..MaxTrades, dur \in Durations, ts \in TradeSizes :
       HandleSubmitLookup(n, dur, ts)
  \/ \E s \in Ids : LookupFound(s)
  \/ \E s \in Ids : LookupFailed(s)
  \/ \E s \in Ids : TimerFire(s)
  \/ \E s \in Ids : BuyOk(s)
  \/ \E s \in Ids : BuyFailed(s)
  \/ \E s \in Ids : GapDone(s)
  \/ \E s \in Ids, ok \in BOOLEAN : SellResolved(s, ok)
  \/ StopClick

SpecLocal == InitLocal /\ [][NextLocal]_vars

\* Every timer that is not cleared fires, the 2 s pause ends, and every swap
\* resolves: executeSwap catches every error and bounds the confirmation wait.
LocalFairness ==
  \A s \in Ids :
    /\ WF_vars(TimerFire(s))
    /\ WF_vars(BuyOk(s) \/ BuyFailed(s))
    /\ WF_vars(GapDone(s))
    /\ WF_vars(\E ok \in BOOLEAN : SellResolved(s, ok))

LiveSpecLocal == SpecLocal /\ LocalFairness

\* ------------------------------------------------------------------------
\* Form: handleInputChange, the lookups, validateForm as handleSubmit calls it
\* ------------------------------------------------------------------------

\* the Form of either revision; it does not read the page's state, which
\* stays as constructed
InitForm ==
  /\ EngineInit /\ variant = "local"
  /\ lastPoll = "off"
  /\ FormInit
  /\ CallInit
  /\ formRev \in Revisions

\* handleInputChange(field, value); an edit of the token address to a long
\* value calls fetchTokenData (later revision), which sets the pool status to
\* loading and issues checkTokenPool
HandleInputChange(field, value, budget) ==
  /\ ~isRunning
  /\ nEdits < budget
  /\ nEdits' = nEdits + 1
  /\ formData' = [formData EXCEPT ![field] = value]
  /\ errors' = ClearError(errors, field)
  /\ valid' = "none"
  /\ IF formRev = "late" /\ field = "tokenAddress" /\ IsLong(value)
       THEN /\ poolStatus' = "loading"
            /\ poolFetches' = poolFetches \cup {value}
       ELSE UNCHANGED <<poolStatus, poolFetches>>
  /\ UNCHANGED <<formRev, connected, balancePending, solBalance, engineVars, callVars>>

\* togglePlatform(platformId)
TogglePlatform(p, budget) ==
  /\ ~isRunning
  /\ nEdits < budget
  /\ nEdits' = nEdits + 1
  /\ formData' =
       [formData EXCEPT !.selectedPlatforms =
          IF \E i \in 1..Len(@) : @[i] = p
            THEN SelectSeq(@, LAMBDA q : q # p)
            ELSE Append(@, p)]
  /\ valid' = "none"
  /\ UNCHANGED <<formRev, connected, balancePending, solBalance, poolStatus,
                 poolFetches, errors, engineVars, callVars>>

\* the wallet connects: the balance effect runs again and schedules fetchBalance
WalletConnect ==
  /\ ~connected
  /\ connected' = TRUE
  /\ balancePending' = TRUE
  /\ valid' = "none"
  /\ UNCHANGED <<formRev, formData, solBalance, poolStatus, poolFetches,
                 errors, nEdits, engineVars, callVars>>

\* fetchBalance resolved: the balance, or 0 when the lookup failed or timed out
BalanceFetched(b) ==
  /\ balancePending
  /\ balancePending' = FALSE
  /\ solBalance' = b
  /\ valid' = "none"
  /\ UNCHANGED <<formRev, formData, connected, poolStatus, poolFetches,
                 errors, nEdits, engineVars, callVars>>

\* checkTokenPool(t) resolved with data: setPoolStatus({exists, loading: false})
PoolChecked(t, exists) ==
  /\ t \in poolFetches
  /\ poolFetches' = poolFetches \ {t}
  /\ poolStatus' = IF exists THEN "exists" ELSE "missing"
  /\ valid' = "none"
  /\ UNCHANGED <<formRev, formData, connected, balancePending, solBalance,
                 errors, nEdits, engineVars, callVars>>

\* checkTokenPool(t) resolved without data: apiCall never rejects, and
\* fetchTokenData then leaves the pool status as it is
PoolCheckFailed(t) ==
  /\ t \in poolFetches
  /\ poolFetches' = poolFetches \ {t}
  /\ valid' = "none"
  /\ UNCHANGED <<formRev, formData, connected, balancePending, solBalance,
                 poolStatus, errors, nEdits, engineVars, callVars>>

\* validateForm(), called by handleSubmit; the submit button is rendered while
\* the campaign is not running and is disabled while the wallet is not
\* connected or a submission is being validated
ValidateForm ==
  /\ ~isRunning /\ ~isValidating /\ connected
  /\ valid = "none"
  /\ errors' = ValidationErrors(formRev, formData, connected, solBalance, poolStatus)
  /\ valid' = IF DOMAIN errors' = {} THEN "ok" ELSE "rejected"
  /\ UNCHANGED <<formRev, formData, connected, balancePending, solBalance,
                 poolStatus, poolFetches, nEdits, engineVars, callVars>>

\* the edits of one field of the form
EditToken(budget) ==
  \E a \in Tokens : HandleInputChange("tokenAddress", a, budget)
EditTrades(budget) ==
  \E txt \in TradesTexts(formRev) :
    HandleInputChange("numberOfTrades", ParseInt(txt), budget)
EditDuration(budget) ==
  \E txt \in DurationTexts : HandleInputChange("duration", ParseInt(txt), budget)
EditTradeSize(budget) ==
  \E txt \in TradeSizeTexts : HandleInputChange("tradeSize", ParseFloat(txt), budget)
EditSlippage(budget) ==
  \E txt \in SlippageTexts :
    HandleInputChange("slippageTolerance", ParseFloat(txt), budget)
EditMode(budget) ==
  \E m \in Modes : HandleInputChange("mode", m, budget)
EditDelayMin(budget) ==
  \E txt \in DelayTexts : HandleInputChange("customDelayMin", ParseInt(txt), budget)
EditDelayMax(budget) ==
  \E txt \in DelayTexts : HandleInputChange("customDelayMax", ParseInt(txt), budget)

NextForm ==
  \/ EditToken(MaxEdits)
  \/ EditTrades(MaxEdits)
  \/ EditDuration(MaxEdits)
  \/ EditTradeSize(MaxEdits)
  \/ EditSlippage(MaxEdits)
  \/ EditMode(MaxEdits)
  \/ EditDelayMin(MaxEdits)
  \/ EditDelayMax(MaxEdits)
  \/ \E p \in Platforms : TogglePlatform(p, MaxEdits)
  \/ WalletConnect
  \/ \E b \in Balances : BalanceFetched(b)
  \/ \E t \in Tokens, exists \in BOOLEAN : PoolChecked(t, exists)
  \/ \E t \in Tokens : PoolCheckFailed(t)
  \/ ValidateForm

SpecForm == InitForm /\ [][NextForm]_vars

\* ---- the mode-specific part of the form alone ----
NextFormModes ==
  \/ EditToken(MaxModeEdits)
  \/ EditMode(MaxModeEdits)
  \/ EditDelayMin(MaxModeEdits)
  \/ EditDelayMax(MaxModeEdits)
  \/ \E p \in Platforms : TogglePlatform(p, MaxModeEdits)
  \/ WalletConnect
  \/ \E b \in Balances : BalanceFetched(b)
  \/ \E t \in Tokens, exists \in BOOLEAN : PoolChecked(t, exists)
  \/ \E t \in Tokens : PoolCheckFailed(t)
  \/ ValidateForm

InitFormModes == InitForm /\ formRev = "late"

SpecFormModes == InitFormModes /\ [][NextFormModes]_vars

\* ---- the delay schedule alone ----
\* a campaign has been submitted with one of the accepted configurations
InitDelay ==
  /\ EngineInit /\ variant = "local"
  /\ lastPoll = "off"
  /\ formRev = "late"
  /\ formData \in DelayConfigs
  /\ connected = TRUE
  /\ balancePending = FALSE
  /\ solBalance = 1000
  /\ poolStatus = "unset"
  /\ poolFetches = {}
  /\ errors = NoErrors
  /\ valid = "ok"
  /\ nEdits = 0
  /\ CallInit

\* startBot and executeTrade: const delay = calculateDelay(config), for the
\* first and for every further operation they schedule
ScheduleDelay(k) ==
  /\ valid = "ok"
  /\ delay' = CalculateDelay(formData, k)
  /\ UNCHANGED <<engineVars, formVars, swap, call>>

NextDelay == \E k \in 0..(RandomSteps - 1) : ScheduleDelay(k)

SpecDelay == InitDelay /\ [][NextDelay]_vars

\* ---- apiCall and executeSwap alone ----
\* apiCall entered: the request is sent.  The later revision arms a timer that
\* aborts the request; the earlier one passes fetch the option
\* "timeout: 30000", which the fetch of a runtime may honour or ignore.
ApiBegin(c, rev, honoured, owner) ==
  [c EXCEPT !.pc = "fetch", !.rev = rev, !.owner = owner,
            !.timer = IF rev = "late" THEN TRUE ELSE honoured,
            !.result = NoResult]

\* an apiCall made by another caller than executeSwap
ApiCallBegin(rev, honoured) ==
  /\ call.pc \in {"idle", "done"}
  /\ swap.pc # "quote"
  /\ call' = ApiBegin(call, rev, honoured, "other")
  /\ UNCHANGED <<engineVars, formVars, delay, swap>>

\* fetch resolved with a response: the later revision clears its timer; a
\* response that is not ok is thrown as "HTTP <status>" and caught
FetchResponded(ok) ==
  /\ call.pc = "fetch"
  /\ call' = IF ok
               THEN [call EXCEPT !.pc = "body",
                                 !.timer = IF call.rev = "late" THEN FALSE ELSE call.timer]
               ELSE [call EXCEPT !.pc = "done", !.timer = FALSE,
                                 !.result = ApiFailure("http")]
  /\ UNCHANGED <<engineVars, formVars, delay, swap>>

\* fetch rejected with a network error
FetchFailed ==
  /\ call.pc = "fetch"
  /\ call' = [call EXCEPT !.pc = "done", !.timer = FALSE,
                          !.result = ApiFailure("network")]
  /\ UNCHANGED <<engineVars, formVars, delay, swap>>

\* the timer fires: the request is aborted and the rejection is caught
\* ("Request timeout after ..." in the later revision)
ApiTimeout ==
  /\ call.timer
  /\ call.pc \in {"fetch", "body"}
  /\ call' = [call EXCEPT !.pc = "done", !.timer = FALSE,
                          !.result = ApiFailure("timeout")]
  /\ UNCHANGED <<engineVars, formVars, delay, swap>>

\* response.json() resolved: return { success: true, data }
BodyParsed ==
  /\ call.pc = "body"
  /\ call' = [call EXCEPT !.pc = "done", !.timer = FALSE, !.result = ApiSuccess]
  /\ UNCHANGED <<engineVars, formVars, delay, swap>>

\* response.json() rejected (the body is no JSON, or the connection broke)
BodyFailed ==
  /\ call.pc = "body"
  /\ call' = [call EXCEPT !.pc = "done", !.timer = FALSE,
                          !.result = ApiFailure("body")]
  /\ UNCHANGED <<engineVars, formVars, delay, swap>>

\* executeSwap entered without a wallet: "Wallet not connected" is thrown
\* and caught
SwapNoWallet ==
  /\ swap.pc \in {"idle", "done"}
  /\ swap' = SwapCaught([NoSwap EXCEPT !.pc = "wallet"], "wallet")
  /\ UNCHANGED <<engineVars, formVars, delay, call>>

\* executeSwap entered with a wallet: getSwapQuote(quoteRequest) is awaited
SwapBegin(rev, honoured) ==
  /\ swap.pc \in {"idle", "done"}
  /\ call.pc \in {"idle", "done"}
  /\ swap' = SwapAdvance(NoSwap, "wallet", "quote")
  /\ call' = ApiBegin(call, rev, honoured, "swap")
  /\ UNCHANGED <<engineVars, formVars, delay>>

\* getSwapQuote resolved.  tx: what response.data.swapTransaction holds
\* ("none": absent, "malformed": Transaction.from throws, "good")
QuoteResolved(tx) ==
  /\ swap.pc = "quote"
  /\ call.pc = "done" /\ call.owner = "swap"
  /\ swap' = IF ~call.result.success THEN SwapCaught(swap, call.result.error)
             ELSE IF tx = "none" THEN SwapCaught(swap, "noquote")
             ELSE IF tx = "malformed"
                    THEN SwapCaught(SwapAdvance(swap, "quote", "sign"), "deserialize")
             ELSE SwapAdvance(swap, "quote", "sign")
  /\ call' = [call EXCEPT !.owner = "none"]
  /\ UNCHANGED <<engineVars, formVars, delay>>

\* signTransaction resolved or rejected
SignResolved(ok) ==
  /\ swap.pc = "sign"
  /\ swap' = IF ok THEN SwapAdvance(swap, "sign", "send") ELSE SwapCaught(swap, "sign")
  /\ UNCHANGED <<engineVars, formVars, delay, call>>

\* sendRawTransaction resolved with the transaction hash, or rejected
SendResolved(ok) ==
  /\ swap.pc = "send"
  /\ swap' = IF ok THEN [SwapAdvance(swap, "send", "confirm") EXCEPT !.hash = TRUE]
             ELSE SwapCaught(swap, "send")
  /\ UNCHANGED <<engineVars, formVars, delay, call>>

\* confirmTransaction settled before the 30 s timer of the race
ConfirmResolved(ok) ==
  /\ swap.pc = "confirm"
  /\ swap' = IF ok THEN [SwapAdvance(swap, "confirm", "done") EXCEPT !.result = SwapSuccess]
             ELSE SwapCaught(swap, "confirm")
  /\ UNCHANGED <<engineVars, formVars, delay, call>>

\* the 30 s timer of the race fired first: "Transaction timeout" is caught
ConfirmTimeout ==
  /\ swap.pc = "confirm"
  /\ swap' = SwapCaught(swap, "timeout")
  /\ UNCHANGED <<engineVars, formVars, delay, call>>

InitCalls == Init /\ variant = "local"

NextCalls ==
  \/ \E rev \in Revisions, honoured \in BOOLEAN : ApiCallBegin(rev, honoured)
  \/ \E ok \in BOOLEAN : FetchResponded(ok)
  \/ FetchFailed
  \/ ApiTimeout
  \/ BodyParsed
  \/ BodyFailed
  \/ SwapNoWallet
  \/ \E rev \in Revisions, honoured \in BOOLEAN : SwapBegin(rev, honoured)
  \/ \E tx \in {"none", "malformed", "good"} : QuoteResolved(tx)
  \/ \E ok \in BOOLEAN : SignResolved(ok)
  \/ \E ok \in BOOLEAN : SendResolved(ok)
  \/ \E ok \in BOOLEAN : ConfirmResolved(ok)
  \/ ConfirmTimeout

SpecCalls == InitCalls /\ [][NextCalls]_vars

\* timers fire; nothing obliges the network to answer
LiveSpecCalls == SpecCalls /\ WF_vars(ApiTimeout) /\ WF_vars(ConfirmTimeout)

\* ------------------------------------------------------------------------
\* Claims
\* ------------------------------------------------------------------------

\* loops whose trade-pair has begun and has not resolved
InFlightPairs == {s \in Ids : runs[s].phase \in {"buy", "gap", "sell"}}

\* C1: in the local engine at most one trade-pair is in flight at any time,
\* under every interleaving of start, stop, timer firings and swap resolutions.
C1_SingleInFlight == Cardinality(InFlightPairs) <= 1

\* C2: after stopBot has been called on a running local campaign, no loop of
\* that campaign starts a further trade-pair or schedules a new timer.
C2_NoSuccessorAfterStop ==
  [][\A s \in Ids :
       runs[s].stopped =>
         /\ ~(runs[s].phase # "timer" /\ runs'[s].phase = "timer")
         /\ ~(runs[s].phase # "buy" /\ runs'[s].phase = "buy")]_vars

\* C3: a start request issued while a campaign is running, or while an
\* earlier start still awaits its job submission, creates no second trade
\* loop, submits no second job and creates no second polling timer.
C3_StartGuarded ==
  [][(isRunning \/ \E r \in Ids : runs[r].phase = "submitting") =>
       \A s \in Ids :
         ~(/\ runs[s].phase \in {"none", "validating"}
           /\ runs'[s].phase \in {"submitting", "timer", "polling"})]_vars

\* C4: in every reachable state the counters are non-negative and
\* successfulTrades + failedTrades <= tradesCompleted <= totalTrades.
C4_CounterOrder ==
  /\ stats.successfulTrades >= 0
  /\ stats.failedTrades >= 0
  /\ stats.tradesCompleted >= 0
  /\ stats.successfulTrades + stats.failedTrades <= stats.tradesCompleted
  /\ stats.tradesCompleted <= stats.totalTrades

\* C5 (as stated): whenever the status is completed, however it was reached,
\* successfulTrades + failedTrades equals totalTrades.
C5_CompletedCountsAll ==
  stats.currentStatus = "completed" =>
    stats.successfulTrades + stats.failedTrades = stats.totalTrades

\* C5 (amended): when the local engine reaches status completed and the user
\* has requested no stop, successfulTrades + failedTrades equals totalTrades.
C5_NormalCompletionCounts ==
  (variant = "local" /\ stats.currentStatus = "completed" /\ ~userStopped) =>
    stats.successfulTrades + stats.failedTrades = stats.totalTrades

\* a campaign of two operations, one failed and one succeeded, ran to its end
C5_Witness ==
  /\ variant = "local" /\ stats.currentStatus = "completed" /\ ~userStopped
  /\ ~isRunning
  /\ stats.totalTrades = 2
  /\ stats.successfulTrades = 1 /\ stats.failedTrades = 1

\* C6: a local campaign of N operations that ran to normal completion with
\* the operations of F failed ends with tradesCompleted = N,
\* successfulTrades = N - |F| and failedTrades = |F|.
C6_FinalStats ==
  (variant = "local" /\ stats.currentStatus = "completed" /\ ~userStopped) =>
    /\ stats.tradesCompleted = stats.totalTrades
    /\ stats.failedTrades = failedOps
    /\ stats.successfulTrades = stats.totalTrades - failedOps

\* the log holds an entry of the given pair, leg and status
HasEntry(logs, s, k, type, status) ==
  \E i \in 1..Len(logs) :
    /\ logs[i].run = s /\ logs[i].seq = k
    /\ logs[i].type = type /\ logs[i].status = status

HasSell(logs, s, k) ==
  \E i \in 1..Len(logs) :
    logs[i].run = s /\ logs[i].seq = k /\ logs[i].type = "sell"

\* C7: when the buy leg of a pair fails, its sell leg is never executed and
\* gets no log entry, failedTrades grows by exactly 1, and the campaign goes
\* on: if operations remain, the next one is scheduled.
C7_BuyFailure ==
  /\ [][\A s \in Ids :
          BuyFailed(s) =>
            /\ Len(tradeLogs') = Len(tradeLogs)
            /\ runs'[s].phase \notin {"gap", "sell"}
            /\ stats'.failedTrades = stats.failedTrades + 1
            /\ stats'.tradesCompleted = stats.tradesCompleted
            /\ stats'.successfulTrades = stats.successfulTrades
            /\ (tradeCountRef' < runs[s].N =>
                  /\ runs'[s].phase = "timer"
                  /\ intervalRef' = s
                  /\ stats'.currentStatus = stats.currentStatus
                  /\ isRunning' = isRunning)]_vars
  /\ [](\A s \in Ids, k \in 1..MaxTotalTrades :
          HasEntry(tradeLogs, s, k, "buy", "failed") => ~HasSell(tradeLogs, s, k))
  /\ [](\A s \in Ids :
          runs[s].phase \in {"gap", "sell"} =>
            ~HasEntry(tradeLogs, s, runs[s].seq, "buy", "failed"))

\* the first buy of a two-operation campaign failed and the next operation
\* is scheduled
C7_Witness ==
  /\ variant = "local"
  /\ \E s \in Ids :
       /\ runs[s].N = 2 /\ runs[s].phase = "timer" /\ intervalRef = s
       /\ HasEntry(tradeLogs, s, 1, "buy", "failed")
       /\ ~HasSell(tradeLogs, s, 1)
  /\ stats.failedTrades = 1 /\ tradeCountRef = 1
  /\ isRunning /\ stats.currentStatus = "running"

StopOnce(x) == IF variant = "local" THEN StopBotResult(x) ELSE JobStopResult(x)

\* the state a stop leaves: status completed, isRunning false, intervalRef
\* null and the timer it held cancelled
Stopped(x) ==
  /\ x.st.currentStatus = "completed"
  /\ ~x.running
  /\ x.ref = NULL

\* timers that are pending: delay timers of the local engine, polling timers
PendingTimers(x) == {s \in Ids : x.rs[s].phase = "timer"} \cup x.pt

C9_WitnessLocal ==
  /\ variant = "local" /\ stopsDone >= 1 /\ Stopped(Cur)
  /\ InFlightPairs # {}

\* the swap of a log entry is in flight
SwapInFlight(rs, e) == rs[e.run].phase = e.type /\ rs[e.run].seq = e.seq

SameEntry(e, f) == e.run = f.run /\ e.seq = f.seq /\ e.type = f.type

StartStep ==
  \E s \in Ids :
    \/ runs[s].phase \in {"none", "validating"} /\ runs'[s].phase = "timer"
    \/ runs[s].phase = "submitting" /\ runs'[s].phase = "polling"

\* C11: once a poll response reporting remote status completed or failed has
\* been processed, the polling timer of that job is cancelled and stays so,
\* no further progress request is issued for the job, the local status is
\* completed or error respectively and isRunning is false.
C11_TerminalStopsPolling ==
  /\ [][\A j \in Ids :
          (pollReqs'[j] < pollReqs[j] /\ lastPoll' \in {"completed", "failed"}) =>
            /\ j \notin pollTimers'
            /\ ~isRunning'
            /\ stats'.currentStatus =
                 (IF lastPoll' = "completed" THEN "completed" ELSE "error")]_vars
  /\ [][\A j \in Ids :
          /\ pollReqs'[j] > pollReqs[j] => j \in pollTimers
          /\ j \in pollTimers' => (j \in pollTimers \/ runs[j].phase = "submitting")
          /\ runs'[j].phase = "submitting" =>
               runs[j].phase \in {"none", "validating", "submitting"}]_vars

\* with no stop requested, the job failed remotely: its timer is gone, nothing
\* is in flight, the status is error and the form is shown again
C11_Witness ==
  /\ variant = "job" /\ ~userStopped
  /\ \E j \in Ids :
       /\ runs[j].phase = "polling" /\ stats.currentJobId = j
       /\ j \notin pollTimers /\ pollReqs[j] = 0
  /\ ~isRunning /\ stats.currentStatus = "error"

\* C12: after stop has been requested for a run, a poll response that
\* arrives later changes neither the statistics nor the status of the run.
C12_LateResponseIgnored ==
  [][\A j \in Ids :
       (/\ variant = "job" /\ runs[j].stopped /\ stats.currentJobId = j
        /\ j \notin pollTimers /\ intervalRef = NULL
        /\ pollReqs'[j] < pollReqs[j]) => stats' = stats]_vars

\* C13: a progress poll that fails leaves the statistics and the status
\* unchanged, does not end the run and does not cancel the polling timer:
\* the timer is still live and its next tick can issue a request.
C13_PollFailureIgnored ==
  [][\A j \in Ids :
       PollFailed(j) =>
         /\ stats' = stats /\ isRunning' = isRunning
         /\ pollTimers' = pollTimers /\ intervalRef' = intervalRef
         /\ tradeLogs' = tradeLogs /\ runs' = runs
         /\ pollReqs'[j] = pollReqs[j] - 1
         /\ (j \in pollTimers => (j \in pollTimers' /\ InFlight' < MaxPollReqs))]_vars

\* a running job whose statistics show progress has just had a poll fail,
\* and its timer is live
C13_Witness ==
  /\ variant = "job" /\ lastPoll = "nodata"
  /\ isRunning /\ stats.currentStatus = "running"
  /\ stats.currentJobId \in pollTimers
  /\ stats.tradesCompleted = 1 /\ stats.successfulTrades = 1
  /\ InFlight = 0

\* C14: once the status is completed or error it does not become running
\* again within the run; running is entered only by a start.
C14_NoReturnToRunning ==
  [][(stats.currentStatus \in {"completed", "error"} /\ ~StartStep) =>
       stats'.currentStatus \in {"completed", "error"}]_vars

\* a job that the user stopped was then reported failed by a late response
C14_Witness ==
  /\ variant = "job" /\ userStopped /\ stopsDone >= 1
  /\ stats.currentStatus = "error" /\ ~isRunning

\* a local campaign was stopped, and a pair in flight resolved afterwards
C14_WitnessLocal ==
  /\ variant = "local" /\ userStopped
  /\ stats.currentStatus = "completed" /\ ~isRunning
  /\ stats.tradesCompleted = 1 /\ InFlightPairs = {}

\* C15: in the local engine, within one run, tradesCompleted and
\* volumeGenerated never decrease, estimatedCompletion never increases and is
\* never negative; a start sets it to the configured duration.
C15_LocalMonotone ==
  /\ [](variant = "local" => stats.estimatedCompletion >= 0)
  /\ [][(variant = "local" /\ ~StartStep) =>
          /\ stats'.tradesCompleted >= stats.tradesCompleted
          /\ stats'.volumeGenerated >= stats.volumeGenerated
          /\ stats'.estimatedCompletion <= stats.estimatedCompletion]_vars
  /\ [][(variant = "local" /\ StartStep) =>
          stats'.estimatedCompletion \in Durations]_vars

\* two pairs (one of them begun by an earlier run) have completed in a run of
\* one operation: the estimate was floored at 0
C15_Witness ==
  /\ variant = "local"
  /\ stats.totalTrades = 1 /\ stats.tradesCompleted = 2
  /\ stats.volumeGenerated = 4 /\ stats.estimatedCompletion = 0

\* C16: in the job-polling variant, across any sequence of applied progress
\* snapshots, tradesCompleted and volumeGenerated of the run never decrease.
C16_JobMonotone ==
  [][(variant = "job" /\ ~StartStep) =>
       /\ stats'.tradesCompleted >= stats.tradesCompleted
       /\ stats'.volumeGenerated >= stats.volumeGenerated]_vars

\* ---- validation rules as the claims state them ----
\* the value is a number within [low, high]
Within(value, low, high) == value.kind = "num" /\ low <= value.v /\ value.v <= high

TradesInBound == Within(formData.numberOfTrades, TradesLow(formRev), TradesHigh(formRev))
DurationInBound == Within(formData.duration, 1, 1440)
TradeSizeInBound == Within(formData.tradeSize, 10, 100)
SlippageInBound == Within(formData.slippageTolerance, 100, 10000)

\* validateForm has returned for the inputs the form holds now
Validated == valid # "none"

\* the error map holds a message under the key
HasError(key) == key \in DOMAIN errors /\ errors[key] # ""

\* C17: validation accepts a configuration only if every numeric field lies
\* within its bound; any other value, the not-a-number value of an emptied input
\* included, is rejected with an error for its field; validation never changes
\* the entered values.
C17_OnlyInBoundAccepted ==
  /\ [](valid = "ok" =>
          TradesInBound /\ DurationInBound /\ TradeSizeInBound /\ SlippageInBound)
  /\ [](Validated =>
          /\ ~TradesInBound => HasError("numberOfTrades")
          /\ ~DurationInBound => HasError("duration")
          /\ ~TradeSizeInBound => HasError("tradeSize")
          /\ ~SlippageInBound => HasError("slippageTolerance"))
  /\ [][ValidateForm => formData' = formData]_vars

\* the token address is present and well-formed
TokenWellFormed == formData.tokenAddress # "" /\ IsPublicKey(formData.tokenAddress)

\* both delays are present and the minimum is strictly less than the maximum
DelaysOrdered ==
  /\ formData.customDelayMin.kind = "num" /\ formData.customDelayMin.v >= 1
  /\ formData.customDelayMax.kind = "num"
  /\ formData.customDelayMin.v < formData.customDelayMax.v

\* C18: the error map validation produces holds an entry for each rule the
\* input violates, not only the first, and validation succeeds if and only
\* if the map is empty.
C18_AllViolationsReported ==
  Validated =>
    /\ ~connected => HasError("wallet")
    /\ (connected /\ solBalance < 10) => HasError("balance")
    /\ ~TokenWellFormed => HasError("tokenAddress")
    /\ ~TradesInBound => HasError("numberOfTrades")
    /\ ~DurationInBound => HasError("duration")
    /\ ~TradeSizeInBound => HasError("tradeSize")
    /\ ~SlippageInBound => HasError("slippageTolerance")
    /\ (formData.mode = "advanced" /\ ~DelaysOrdered) =>
         (HasError("customDelayMin") \/ HasError("customDelayMax"))
    /\ (valid = "ok" <=> DOMAIN errors = {})

\* C19: in Advanced mode validation rejects every configuration whose minimum
\* delay is missing, whose maximum delay is missing, or whose minimum is not
\* strictly less than its maximum; in the other modes the delays are not checked.
C19_AdvancedDelaysOrdered ==
  /\ (valid = "ok" /\ formData.mode = "advanced") => DelaysOrdered
  /\ (Validated /\ formData.mode # "advanced") =>
       (~HasError("customDelayMin") /\ ~HasError("customDelayMax"))

\* C20: in Trending mode validation rejects a configuration whose set of
\* selected platforms is empty.
C20_TrendingNeedsPlatform ==
  (valid = "ok" /\ formData.mode = "trending") => formData.selectedPlatforms # <<>>

\* every field of the form is well-formed
FieldsWellFormed ==
  /\ TokenWellFormed
  /\ TradesInBound /\ DurationInBound /\ TradeSizeInBound /\ SlippageInBound
  /\ formData.mode = "advanced" => DelaysOrdered
  /\ formData.mode = "trending" => formData.selectedPlatforms # <<>>

\* C21: when an external lookup is unavailable (the balance fetch failed or
\* timed out, so that the balance is recorded as 0; the pool check failed), a
\* submission whose fields are all well-formed and whose wallet is connected
\* is not blocked: validation passes.
C21_LookupUnavailableNotBlocking ==
  (/\ Validated /\ connected /\ FieldsWellFormed
   /\ ~balancePending /\ solBalance = 0
   /\ poolStatus # "missing") => valid = "ok"

\* the delay is a number of at least low and at most high (in DelayUnits)
DelayBetween(low, high) == delay.kind = "num" /\ low <= delay.v /\ delay.v <= high

\* duration * 60000 / numberOfTrades, for a duration and a count that are numbers
NominalDelay == (formData.duration.v * 60000) \div formData.numberOfTrades.v

C25_ApiCallResolves ==
  /\ [](call.pc = "done" =>
          /\ call.result.kind = "resolved"
          /\ call.result.success <=> call.result.data
          /\ call.result.success <=> call.result.error = "")
  /\ (call.pc \in {"fetch", "body"}) ~> (call.pc = "done")

\* the step in which the startBot call of submission s resets the statistics
StartOf(s) ==
  \/ runs[s].phase \in {"none", "validating"} /\ runs'[s].phase = "timer"
  \/ runs[s].phase = "submitting" /\ runs'[s].phase = "polling"

\* C23: immediately after a successful start the counters and the volume are
\* 0, totalTrades is the configured trade count, estimatedCompletion the
\* configured duration, the status is running and the trade log is empty,
\* whatever a previous run left.
C23_FreshRunStats ==
  [][\A s \in Ids :
       StartOf(s) =>
         /\ stats'.tradesCompleted = 0
         /\ stats'.successfulTrades = 0
         /\ stats'.failedTrades = 0
         /\ stats'.volumeGenerated = 0
         /\ stats'.totalTrades = runs'[s].N
         /\ stats'.estimatedCompletion = runs'[s].D
         /\ stats'.currentStatus = "running"
         /\ tradeLogs' = <<>>
         /\ isRunning']_vars

\* a second campaign has just been started after a first one that was
\* stopped with a pair begun: the statistics and the log are fresh
C23_Witness ==
  /\ variant = "local"
  /\ runs[1].stopped /\ runs[1].seq = 1
  /\ runs[2].phase = "timer" /\ runs[2].seq = 0
  /\ stats.tradesCompleted = 0 /\ stats.failedTrades = 0
  /\ stats.totalTrades = runs[2].N /\ stats.estimatedCompletion = runs[2].D
  /\ stats.currentStatus = "running" /\ tradeLogs = <<>>

\* the submission whose startBot call was the last to run (the local engine
\* starts its campaigns in the order of submission)
Started(s) == runs[s].phase \notin {"none", "validating", "rejected"}
CurrentRun == CHOOSE s \in Ids : Started(s) /\ \A u \in Ids : Started(u) => u <= s

\* C26: the statistics and the trade log of a run reflect only operations
\* started in that run: a trade-pair of an earlier run that is still in flight
\* adds no log entry to, and changes no counter of, the run started after it.
C26_RunIsolation ==
  /\ []((variant = "local" /\ \E s \in Ids : Started(s)) =>
          \A i \in 1..Len(tradeLogs) : tradeLogs[i].run = CurrentRun)
  /\ [][\A s \in Ids :
          (/\ variant = "local"
           /\ runs[s].phase \in {"buy", "gap", "sell"}
           /\ runs'[s].phase # runs[s].phase
           /\ s # CurrentRun) =>
            /\ stats'.tradesCompleted = stats.tradesCompleted
            /\ stats'.successfulTrades = stats.successfulTrades
            /\ stats'.failedTrades = stats.failedTrades
            /\ stats'.volumeGenerated = stats.volumeGenerated]_vars

\* C27: in the job-polling variant at most one polling timer exists at any
\* time, and once a stop has completed no polling timer remains active.
C27_OnePollingTimer ==
  /\ [](variant = "job" => Cardinality(pollTimers) <= 1)
  /\ [][(variant = "job" /\ stopReqs' < stopReqs) => pollTimers' = {}]_vars

\* C28: in the job-polling variant a terminal status is stable until the
\* next start: error is never overwritten by completed, and completed is
\* never overwritten by error.
C28_TerminalStatusStable ==
  [][(variant = "job" /\ ~StartStep) =>
       /\ stats.currentStatus = "error" => stats'.currentStatus # "completed"
       /\ stats.currentStatus = "completed" => stats'.currentStatus # "error"]_vars

\* C29: in the local engine, in every state of a single run, volumeGenerated
\* equals tradesCompleted * tradeSize * 200: volume is credited once per pair
\* whose buy leg succeeded, whatever its sell leg did, and never for a pair
\* whose buy leg failed.  (tradeSize is runs[1].T / 100.)
C29_VolumePerCompletedPair ==
  (variant = "local" /\ nStarts = 1 /\ Started(1)) =>
    stats.volumeGenerated = stats.tradesCompleted * runs[1].T * 2

\* C30: the pool status validation reads corresponds to the token address
\* entered now: the response of a pool check made for another address does
\* not determine the pool status, and once no pool check is in flight the
\* status is not loading.
C30_PoolStatusCurrent ==
  /\ [][\A a \in Tokens :
          (a \in poolFetches /\ a \notin poolFetches' /\ a # formData.tokenAddress) =>
            poolStatus' = poolStatus]_vars
  /\ [](poolFetches = {} => poolStatus # "loading")

\* a single run of two operations: one failed on its buy leg, one on its
\* sell leg, and only the latter was credited
C29_Witness ==
  /\ variant = "local" /\ nStarts = 1
  /\ stats.totalTrades = 2 /\ stats.failedTrades = 2
  /\ stats.tradesCompleted = 1 /\ stats.volumeGenerated = 2 * runs[1].T
====
